---- MODULE Spec2Model ----
(***************************************************************************)
(* A model of crm/load.py (import_schema) and crm/models.py (the type      *)
(* registry built by build_models, and upcast/downcast of live instances). *)
(*                                                                         *)
(* Three specifications share the variables:                               *)
(*   SpecImport  import_schema applied to bounded RDF graphs               *)
(*   SpecBuild   the registry under build_models, get_or_create_class and  *)
(*               get_or_create_rel_class                                   *)
(*   Spec        upcast/downcast on instances over a built hierarchy       *)
(***************************************************************************)
EXTENDS Integers, Sequences, FiniteSets, TLC

VARIABLES
    imported,   \* the last import_schema call: its graph and what it returned
    registry,   \* globals() of crm.models: identifier -> object id (0: unbound)
    heap,       \* the type objects built so far, by object id
    input,      \* the schema, iteration orders and extension fields drawn
    ncalls,     \* number of registry calls made
    last,       \* the last registry call: what was asked and what came back
    nodes,      \* stored records of the graph store: node id -> set of labels
    objs,       \* live instances: handle -> [cls, node]
    reloads,    \* number of inflate()+refresh() round trips to the store
    ret         \* the last upcast/downcast call and its outcome

vars == <<imported, registry, heap, input, ncalls, last, nodes, objs, reloads,
          ret>>

----------------------------------------------------------------------------
(* Bounds of the model.                                                    *)

MaxClasses == 2     \* class subjects per graph (SpecImport)
MaxProps == 2       \* property subjects per graph (SpecImport)
MaxCalls == 2       \* registry calls per behaviour (SpecBuild)
MaxNodes == 1       \* stored records (Spec)
MaxObjs == 3        \* live instances (Spec)

----------------------------------------------------------------------------
(* Text.  A URI is a sequence of characters; identifiers are strings.      *)

None == "<None>"          \* None, where a string is expected
NoErr == "no error"       \* no exception raised
Unbound == <<>>           \* a local variable not assigned yet

\* (upper, lower) pairs of the cased letters that occur in the URIs below.
Letters ==
    { <<"A","a">>, <<"C","c">>, <<"E","e">>, <<"F","f">>, <<"I","i">>,
      <<"L","l">>, <<"N","n">>, <<"O","o">>, <<"P","p">>, <<"R","r">>,
      <<"S","s">>, <<"T","t">>, <<"X","x">> }

IsLetter(c) == \E p \in Letters : c = p[1] \/ c = p[2]
ToUpper(c) == IF \E p \in Letters : p[2] = c
              THEN (CHOOSE p \in Letters : p[2] = c)[1] ELSE c
ToLower(c) == IF \E p \in Letters : p[1] = c
              THEN (CHOOSE p \in Letters : p[1] = c)[2] ELSE c

RECURSIVE Cat(_)
Cat(s) == IF s = <<>> THEN "" ELSE Head(s) \o Cat(Tail(s))

\* s.replace(a, b) for a single character a; b is a sequence (possibly empty).
RECURSIVE Replace(_, _, _)
Replace(s, a, b) ==
    IF s = <<>> THEN <<>>
    ELSE (IF Head(s) = a THEN b ELSE <<Head(s)>>) \o Replace(Tail(s), a, b)

\* s.title(): a letter is upper-cased after a non-letter, lower-cased after a
\* letter.
RECURSIVE TitleFrom(_, _)
TitleFrom(s, afterLetter) ==
    IF s = <<>> THEN <<>>
    ELSE <<IF afterLetter THEN ToLower(Head(s)) ELSE ToUpper(Head(s))>>
         \o TitleFrom(Tail(s), IsLetter(Head(s)))
Title(s) == TitleFrom(s, FALSE)

\* s.split(d)[-1]: what follows the last d (all of s when d does not occur).
RECURSIVE AfterLast(_, _)
AfterLast(s, d) ==
    IF \E i \in 1..Len(s) : s[i] = d
    THEN AfterLast(SubSeq(s, (CHOOSE i \in 1..Len(s) : s[i] = d) + 1, Len(s)), d)
    ELSE s

\* s.split(d)[0]: what precedes the first d.
FirstPart(s, d) ==
    IF \E i \in 1..Len(s) : s[i] = d
    THEN SubSeq(s, 1, (CHOOSE i \in 1..Len(s) :
                          s[i] = d /\ \A j \in 1..(i-1) : s[j] # d) - 1)
    ELSE s

\* _identifier(uri_ref): (identifier, safe_name, code).
\* ' '.join(local.split('_')) is local with '_' replaced by ' '.
Identifier(uri) ==
    LET delim == IF \E i \in 1..Len(uri) : uri[i] = "#" THEN "#" ELSE "/"
        local == AfterLast(uri, delim)
        spaced == Replace(local, "_", <<" ">>)
    IN  << Cat(Replace(Replace(Title(spaced), " ", <<>>), "-", <<>>)),
           Cat(Replace(local, "-", <<"_">>)),
           Cat(FirstPart(local, "_")) >>

\* code.endswith('i'), on the code's characters.
CodeEndsWithI(uri) ==
    LET delim == IF \E i \in 1..Len(uri) : uri[i] = "#" THEN "#" ELSE "/"
        code == FirstPart(AfterLast(uri, delim), "_")
    IN  code # <<>> /\ code[Len(code)] = "i"

----------------------------------------------------------------------------
(* The subjects of the bounded graphs.                                     *)

U_E1   == <<"c","#","E","1","_","e","n","t">>      \* E1Ent, E1_ent, E1
U_E1b  == <<"c","/","e","1","-","E","N","T">>      \* E1Ent, e1_ENT, e1-ENT
U_E2   == <<"c","#","E","2","_","a","c","t">>      \* E2Act
U_E3   == <<"c","#","E","3","_","o","b","j">>      \* E3Obj
U_P1   == <<"c","#","P","1","_","i","s">>          \* P1Is, code P1
U_P1i  == <<"c","#","P","1","i","_","o","f">>      \* code P1i: an inverse
U_X    == <<"c","#","E","9","_","x">>              \* E9X: never declared
U_Lit  == <<"r","#","L","i","t","e","r","a","l">>  \* Literal

ClassRefs == {U_E1, U_E2, U_E1b}
PropRefs == {U_P1, U_P1i, U_E2}
Subjects == ClassRefs \cup PropRefs \cup {U_E3}

SeqsUpTo(S, n) == UNION {[1..k -> S] : k \in 0..n}

Lit(text, lang) == [tag |-> "Literal", text |-> text, language |-> lang]

\* What the graph holds for each subject besides the varied triples.
FixedLabels ==
    [s \in Subjects |->
        CASE s = U_E1  -> <<Lit("Entite", "fr"), Lit("Entity", "en")>>
          [] s = U_E2  -> <<Lit("Handlung", "de"), Lit("Action", "fr")>>
          [] OTHER     -> <<>>]
FixedDescription ==
    [s \in Subjects |-> IF s = U_E1 THEN <<Lit("d-E1", None)>> ELSE <<>>]
FixedComment ==
    [s \in Subjects |->
        IF s \in {U_E1, U_E2, U_P1} THEN <<Lit("c-" \o Identifier(s)[1], None)>>
        ELSE <<>>]
FixedSubClassOf == [s \in Subjects |-> IF s = U_E1b THEN <<U_E2>> ELSE <<>>]
FixedSubPropertyOf ==
    [s \in Subjects |->
        CASE s = U_E2 -> <<U_E2>>
          [] s = U_P1 -> <<U_E2>>
          [] OTHER    -> <<>>]
FixedDomain == [s \in Subjects |-> <<U_E1>>]
FixedRange == [s \in Subjects |-> <<U_E1>>]

\* A graph: the subjects typed rdfs:Class/owl:Class and rdf:Property in the
\* order the store yields them, and the objects of each (subject, predicate).
Graph(cs, ps, labE1b, labP1, subE2, sprE1, domP1, rngP1) ==
    [ parses        |-> TRUE,
      classes       |-> cs,
      properties    |-> ps,
      label         |-> [FixedLabels EXCEPT ![U_E1b] = labE1b, ![U_P1] = labP1],
      description   |-> FixedDescription,
      comment       |-> FixedComment,
      subClassOf    |-> [FixedSubClassOf EXCEPT ![U_E2] = subE2],
      subPropertyOf |-> [FixedSubPropertyOf EXCEPT ![U_E1] = sprE1],
      domain        |-> [FixedDomain EXCEPT ![U_P1] = domP1],
      range         |-> [FixedRange EXCEPT ![U_P1] = rngP1] ]

\* A source neither parse attempt accepts.
BadSource == [Graph(<<>>, <<>>, <<>>, <<>>, <<>>, <<>>, <<>>, <<>>)
                EXCEPT !.parses = FALSE]

Schemas ==
    { Graph(cs, ps, labE1b, labP1, subE2, sprE1, domP1, rngP1) :
        cs \in SeqsUpTo(ClassRefs, MaxClasses),
        ps \in SeqsUpTo(PropRefs, MaxProps),
        labE1b \in {<<>>, <<Lit("Entity b", "en")>>},
        labP1 \in {<<>>, <<Lit("est", "fr")>>},
        subE2 \in {<<>>, <<U_E1>>, <<U_X>>, <<U_E1, U_Lit>>},
        sprE1 \in {<<>>, <<U_P1>>},
        domP1 \in {<<>>, <<U_E2>>},
        rngP1 \in {<<U_X>>, <<U_Lit>>} }
    \cup {BadSource}

----------------------------------------------------------------------------
(* crm/load.py                                                             *)

\* g.objects(s, p) as a list.
Objects(g, s, p) == g[p][s]

\* _get_object(g, s, p): the first object, or None.  The result is a list of
\* at most one term; the empty list stands for None.
GetObject(g, s, p) ==
    IF Objects(g, s, p) = <<>> THEN <<>> ELSE <<Objects(g, s, p)[1]>>
IsNone(x) == x = <<>>

\* _get_label(g, s): the English label, else the first label; with no label
\* at all list(...)[0] raises IndexError and the handler returns
\* _identifier(s), which is the whole (identifier, safe_name, code) tuple.
GetLabel(g, s) ==
    LET ls == Objects(g, s, "label")
    IN  IF \E i \in 1..Len(ls) : ls[i].language = "en"
        THEN ls[CHOOSE i \in 1..Len(ls) :
                   ls[i].language = "en" /\ \A j \in 1..(i-1) : ls[j].language # "en"]
        ELSE IF ls # <<>> THEN ls[1]
        ELSE [tag |-> "tuple", value |-> Identifier(s)]

\* x.toPython(): defined on rdflib terms only.
HasToPython(x) == x.tag = "Literal"
ToPython(x) == x.text

\* comment = DESCRIPTION or, when that is falsy, COMMENT; then
\* comment.toPython() if comment is not None else None.
CommentOf(g, s) ==
    LET d == GetObject(g, s, "description")
        c == IF IsNone(d) THEN GetObject(g, s, "comment") ELSE d
    IN  IF IsNone(c) THEN None ELSE ToPython(c[1])

Put(table, key, entry) ==
    [k \in DOMAIN table \cup {key} |-> IF k = key THEN entry ELSE table[k]]

EmptyTable == [k \in {} |-> None]

\* The module-level literal_instance.
LiteralInstance == [identifier |-> "Literal", label |-> "Literal"]

\* One iteration of "for class_ref in classes" (lines 129-153).  st carries
\* classesHash, subClass_relations, the loop variable and a raised exception.
ClassStep(g, st, class_ref) ==
    LET id == Identifier(class_ref)
        label == GetLabel(g, class_ref)
        kwargs == [ identifier |-> id[1],
                    code       |-> id[3],
                    safe_name  |-> id[2],
                    comment    |-> CommentOf(g, class_ref),
                    label      |-> ToPython(label),
                    subClassOf |-> <<>> ]
        supers == Objects(g, class_ref, "subClassOf")
    IN  IF ~HasToPython(label)
        THEN [st EXCEPT !.class_ref = class_ref, !.err = "AttributeError"]
        ELSE [st EXCEPT
                !.class_ref = class_ref,
                !.classesHash = Put(@, id[1], kwargs),
                !.subClass_relations =
                    @ \o [i \in 1..Len(supers) |-> <<id[1], Identifier(supers[i])[1]>>]]

RECURSIVE ClassPass(_, _, _)
ClassPass(g, st, refs) ==
    IF refs = <<>> \/ st.err # NoErr THEN st
    ELSE ClassPass(g, ClassStep(g, st, Head(refs)), Tail(refs))

\* A variant that appends the recorded target without looking it up.
RECURSIVE FillSubClassNoLookup(_, _)
FillSubClassNoLookup(st, rels) ==
    IF rels = <<>> \/ st.err # NoErr THEN st
    ELSE FillSubClassNoLookup(
            [st EXCEPT !.classesHash[Head(rels)[1]].subClassOf =
                          Append(@, Head(rels)[2])],
            Tail(rels))

\* "for source, target in subClass_relations" (lines 156-157).
RECURSIVE FillSubClass(_, _)
FillSubClass(st, rels) ==
    IF rels = <<>> \/ st.err # NoErr THEN st
    ELSE LET source == Head(rels)[1]
             target == Head(rels)[2]
         IN  IF target \notin DOMAIN st.classesHash
             THEN [st EXCEPT !.err = "KeyError"]
             ELSE FillSubClass(
                    [st EXCEPT !.classesHash[source].subClassOf =
                                  Append(@, st.classesHash[target].identifier)],
                    Tail(rels))

\* One iteration of "for property_ref in properties" (lines 160-194), with
\* sub_ref the variable whose subPropertyOf triple line 192 reads.
PropertyStepWith(g, st, property_ref, sub_ref) ==
    LET id == Identifier(property_ref)
        label == GetLabel(g, property_ref)
        domain_ref == GetObject(g, property_ref, "domain")
        range_ref == GetObject(g, property_ref, "range")
        rid == Identifier(range_ref[1])[1]
        known == rid \in DOMAIN st.classesHash
        rclass == IF known THEN st.classesHash[rid] ELSE [identifier |-> rid]
        kwargs == [ identifier |-> id[1],
                    code       |-> id[3],
                    safe_name  |-> id[2],
                    comment    |-> CommentOf(g, property_ref),
                    label      |-> ToPython(label),
                    domain     |-> Identifier(domain_ref[1])[1],
                    range      |-> rclass.identifier ]
        subPropertyOf == GetObject(g, sub_ref, "subPropertyOf")
    IN  IF CodeEndsWithI(property_ref) THEN st
        ELSE IF ~HasToPython(label) THEN [st EXCEPT !.err = "AttributeError"]
        ELSE IF IsNone(domain_ref) \/ IsNone(range_ref)
             THEN [st EXCEPT !.err = "TypeError"]
        ELSE IF sub_ref = Unbound
             THEN [st EXCEPT !.err = "UnboundLocalError"]
        ELSE [st EXCEPT
                !.classesHash = IF known THEN @ ELSE Put(@, rid, rclass),
                !.propertiesHash = Put(@, id[1], kwargs),
                !.subProperty_relations =
                    IF IsNone(subPropertyOf) THEN @
                    ELSE Append(@, <<id[1], Identifier(subPropertyOf[1])[1]>>)]

\* A variant that reads the property's own subPropertyOf triple.
PropertyStepOwnRef(g, st, property_ref) ==
    PropertyStepWith(g, st, property_ref, property_ref)

\* Line 192 reads class_ref, the class loop's variable: the last class
\* subject, or unassigned when the graph declares no class.
PropertyStep(g, st, property_ref) ==
    PropertyStepWith(g, st, property_ref, st.class_ref)

RECURSIVE PropertyPass(_, _, _)
PropertyPass(g, st, refs) ==
    IF refs = <<>> \/ st.err # NoErr THEN st
    ELSE PropertyPass(g, PropertyStep(g, st, Head(refs)), Tail(refs))

\* "for source, target in subProperty_relations" (lines 197-198).
RECURSIVE FillSubProperty(_, _)
FillSubProperty(st, rels) ==
    IF rels = <<>> \/ st.err # NoErr THEN st
    ELSE LET source == Head(rels)[1]
             target == Head(rels)[2]
         IN  IF target \notin DOMAIN st.propertiesHash
             THEN [st EXCEPT !.err = "KeyError"]
             ELSE FillSubProperty(
                    [st EXCEPT !.propertiesHash =
                        Put(@, source,
                            [k \in DOMAIN @[source] \cup {"subPropertyOf"} |->
                                IF k = "subPropertyOf"
                                THEN st.propertiesHash[target].identifier
                                ELSE @[source][k]])],
                    Tail(rels))

ImportStart ==
    [ classesHash           |-> Put(EmptyTable, "Literal", LiteralInstance),
      propertiesHash        |-> EmptyTable,
      subClass_relations    |-> <<>>,
      subProperty_relations |-> <<>>,
      class_ref             |-> Unbound,
      err                   |-> NoErr ]

\* What import_schema returns from the state its passes end in.
ImportResult(st) ==
    IF st.err # NoErr
    THEN [err |-> st.err, classes |-> EmptyTable, properties |-> EmptyTable]
    ELSE [err |-> NoErr, classes |-> st.classesHash,
          properties |-> st.propertiesHash]

FillSubClassAll(st) == FillSubClass(st, st.subClass_relations)
FillSubPropertyAll(st) == FillSubProperty(st, st.subProperty_relations)

\* import_schema(schema_url): [err, classes, properties]; the tables are
\* returned only when no exception was raised.
import_schema(g) ==
    IF ~g.parses
    THEN [err |-> "ParseError", classes |-> EmptyTable, properties |-> EmptyTable]
    ELSE ImportResult(
            FillSubPropertyAll(
               PropertyPass(g,
                  FillSubClassAll(ClassPass(g, ImportStart, g.classes)),
                  g.properties)))

----------------------------------------------------------------------------------------------------------------------------------------------------------------------------------------------------------------
(* crm/models.py: the registry and the construction of types.              *)
(*                                                                         *)
(* A type object is a heap entry; its identity is its index.  The library  *)
(* classes above HeritableStructuredNode and StructuredRel are the same    *)
(* for every type of a family and are left out of bases and mro.           *)

RootName == "HeritableStructuredNode"
RootId == 1

\* class HeritableStructuredNode (lines 37-42)
RootObject ==
    [ kind |-> "root", family |-> "node", name |-> RootName,
      bases |-> <<>>, mro |-> <<RootId>>, attrs |-> EmptyTable ]

\* d.get(key, default)
Get(d, key, default) == IF key \in DOMAIN d THEN d[key] ELSE default

\* The values of a type's attribute dictionary: plain metadata, a Property
\* descriptor made by an extension-field factory, or a RelationshipTo.
Val(x) == [tag |-> "value", value |-> x]
PropertyDescriptor == [tag |-> "Property"]

NonEmpty(q) == q # <<>>

\* The C3 merge of type.mro(): the first head that is in no tail is taken.
RECURSIVE Merge(_)
Merge(seqs) ==
    LET ne == SelectSeq(seqs, NonEmpty)
        good == { i \in 1..Len(ne) :
                    \A j \in 1..Len(ne) :
                       \A k \in 2..Len(ne[j]) : ne[j][k] # ne[i][1] }
    IN  IF ne = <<>> THEN [ok |-> TRUE, mro |-> <<>>]
        ELSE IF good = {} THEN [ok |-> FALSE, mro |-> <<>>]
        ELSE LET i == CHOOSE x \in good : \A y \in good : x <= y
                 h == ne[i][1]
                 rest == Merge([j \in 1..Len(ne) |->
                                  IF ne[j][1] = h THEN Tail(ne[j]) ELSE ne[j]])
             IN  [ok |-> rest.ok, mro |-> <<h>> \o rest.mro]

\* type(name, bases, params) on heap h: the new object is appended.  type()
\* raises TypeError for a duplicate base, for bases of the two metaclasses
\* (node and relationship) and for bases without a consistent linearisation.
TypeNew(h, kind, name, bases, params) ==
    LET id == Len(h) + 1
        families == {h[bases[i]].family : i \in 1..Len(bases)}
        merged == Merge([i \in 1..Len(bases) |-> h[bases[i]].mro] \o <<bases>>)
    IN  IF \/ \E i, j \in 1..Len(bases) : i # j /\ bases[i] = bases[j]
           \/ Cardinality(families) > 1
           \/ ~merged.ok
        THEN [err |-> "TypeError", heap |-> h, id |-> 0]
        ELSE [err |-> NoErr,
              heap |-> Append(h,
                  [ kind |-> kind,
                    family |-> IF bases = <<>> THEN kind
                               ELSE CHOOSE f \in families : TRUE,
                    name |-> name, bases |-> bases,
                    mro |-> <<id>> \o merged.mro, attrs |-> params ]),
              id |-> id]

\* Extension fields (lines 163-169 and 230-236): a value is added under its
\* key when it is callable, the key is not taken, and the call returns a
\* Property; any other value is passed over.
FieldValues == {"returns Property", "returns other", "not callable"}

\* A variant without the callable test: every free key is added.
WithFieldsNoCallableTest(params, fields) ==
    [k \in DOMAIN params \cup DOMAIN fields |->
        IF k \in DOMAIN params THEN params[k] ELSE PropertyDescriptor]

WithFields(params, fields) ==
    LET added == { k \in DOMAIN fields :
                     /\ fields[k] # "not callable"
                     /\ k \notin DOMAIN params
                     /\ fields[k] = "returns Property" }
    IN  [k \in DOMAIN params \cup added |->
            IF k \in added THEN PropertyDescriptor ELSE params[k]]

\* _globs[identifier] = type(...); return _globs[identifier], where t is
\* what type() came to.  S.replaced records the identifiers whose binding an
\* assignment has overwritten.
Registered(S, identifier, t) ==
    IF t.err # NoErr THEN [S |-> [S EXCEPT !.err = t.err], id |-> 0]
    ELSE [S |-> [S EXCEPT !.heap = t.heap,
                          !.registry = Put(@, identifier, t.id),
                          !.replaced = IF identifier \in DOMAIN S.registry
                                       THEN @ \cup {identifier} ELSE @],
          id |-> t.id]

RelParams(identifier, entry) ==
    ( "__doc__"       :> Val(Get(entry, "comment", "")) @@
      "description"   :> Val(Get(entry, "comment", "")) @@
      "display_label" :> Val(Get(entry, "label", identifier)) @@
      "code"          :> Val(Get(entry, "code", None)) @@
      "safe_name"     :> Val(Get(entry, "safe_name", None)) @@
      "range"         :> Val(Get(entry, "range", None)) )

\* get_or_create_rel_class(identifier, entry, fields) in state S =
\* [registry, heap, err, replaced]; the result carries the returned object's id.
get_or_create_rel_class(S, identifier, entry, fields) ==
    IF identifier \in DOMAIN S.registry
    THEN [S |-> S, id |-> S.registry[identifier]]
    ELSE Registered(S, identifier,
            TypeNew(S.heap, "rel", identifier, <<>>,
                    WithFields(RelParams(identifier, entry), fields)))

\* RelationshipTo(target_identifier, ident, model=target_class)
RelationshipTo(target, rel_type, model) ==
    [tag |-> "RelationshipTo", cls_name |-> target, rel_type |-> rel_type,
     model |-> model]

\* Lines 238-245: one relationship class and one attribute per property of
\* sources[identifier].  acc = [S, params].
AttachOne(acc, ident, prop, r) ==
    [S |-> r.S,
     params |-> Put(acc.params, Get(prop, "safe_name", None),
                    RelationshipTo(Get(prop, "range", None), ident, r.id))]

RECURSIVE AttachProperties(_, _, _, _)
AttachProperties(acc, idents, propdata, rel_fields) ==
    IF idents = <<>> \/ acc.S.err # NoErr THEN acc
    ELSE IF Head(idents) \notin DOMAIN propdata    \* propdata.get() is None
    THEN [acc EXCEPT !.S.err = "AttributeError"]
    ELSE AttachProperties(
            AttachOne(acc, Head(idents), propdata[Head(idents)],
                      get_or_create_rel_class(acc.S, Head(idents),
                                              propdata[Head(idents)], rel_fields)),
            Tail(idents), propdata, rel_fields)

NodeParams(entry) ==
    ( "__doc__"       :> Val(Get(entry, "comment", "")) @@
      "description"   :> Val(Get(entry, "comment", "")) @@
      "display_label" :> Val(Get(entry, "label", None)) @@
      "code"          :> Val(Get(entry, "code", None)) @@
      "safe_name"     :> Val(Get(entry, "safe_name", None)) )

\* get_or_create_class(identifier, entry, classdata, propdata, sources,
\* fields, rel_fields) in state S.  T = [classdata, propdata, sources, fields,
\* rel_fields].  stack holds the (identifier, entry) pairs of the calls in
\* progress: a call that meets its own pair again recurses without end, which
\* Python ends with RuntimeError (maximum recursion depth exceeded).
RECURSIVE get_or_create_class(_, _, _, _, _)
RECURSIVE SuperClasses(_, _, _, _)

Resolved(acc, r) == [S |-> r.S, ids |-> Append(acc.ids, r.id)]

\* The list comprehension of lines 215-219.  acc = [S, ids].
SuperClasses(acc, idents, T, stack) ==
    IF idents = <<>> \/ acc.S.err # NoErr THEN acc
    ELSE IF Head(idents) \notin DOMAIN T.classdata
         THEN [acc EXCEPT !.S.err = "KeyError"]
         ELSE SuperClasses(
                 Resolved(acc, get_or_create_class(acc.S, Head(idents),
                                 T.classdata[Head(idents)], T, stack)),
                 Tail(idents), T, stack)

\* Line 247, after the properties are attached: att = [S, params].
CreateClass(identifier, bases, att) ==
    IF att.S.err # NoErr THEN [S |-> att.S, id |-> 0]
    ELSE Registered(att.S, identifier,
                    TypeNew(att.S.heap, "node", identifier, bases, att.params))

\* Lines 223-245, after the super classes are resolved: sup = [S, ids].
WithSuperClasses(identifier, entry, T, sup) ==
    IF sup.S.err # NoErr THEN [S |-> sup.S, id |-> 0]
    ELSE CreateClass(identifier, sup.ids,
            AttachProperties(
               [S |-> sup.S, params |-> WithFields(NodeParams(entry), T.fields)],
               Get(T.sources, identifier, <<>>), T.propdata, T.rel_fields))

get_or_create_class(S, identifier, entry, T, stack) ==
    IF identifier \in DOMAIN S.registry
    THEN [S |-> S, id |-> S.registry[identifier]]
    ELSE IF <<identifier, entry>> \in stack
    THEN [S |-> [S EXCEPT !.err = "RuntimeError"], id |-> 0]
    ELSE WithSuperClasses(identifier, entry, T,
            IF Get(entry, "subClassOf", <<>>) # <<>>
            THEN SuperClasses([S |-> S, ids |-> <<>>], entry.subClassOf,
                              T, stack \cup {<<identifier, entry>>})
            ELSE [S |-> S, ids |-> <<RootId>>])

\* Lines 272-274: sources[entry.get('domain')].append(prop), over
\* propdata.items() in the order porder.
Sources(propdata, porder) ==
    [d \in {propdata[p].domain : p \in DOMAIN propdata} |->
        LET From(p) == propdata[p].domain = d IN SelectSeq(porder, From)]

RECURSIVE BuildClasses(_, _, _)
BuildClasses(S, corder, T) ==
    IF corder = <<>> \/ S.err # NoErr THEN S
    ELSE BuildClasses(
            get_or_create_class(S, Head(corder), T.classdata[Head(corder)], T, {}).S,
            Tail(corder), T)

RECURSIVE BuildRelClasses(_, _, _)
BuildRelClasses(S, porder, T) ==
    IF porder = <<>> \/ S.err # NoErr THEN S
    ELSE BuildRelClasses(
            get_or_create_rel_class(S, Head(porder), T.propdata[Head(porder)],
                                    T.rel_fields).S,
            Tail(porder), T)

\* build_models(schema_url, fields, rel_fields) in state S; corder and porder
\* are the orders in which classdata.items() and propdata.items() iterate.
Tables(r, porder, fields, rel_fields) ==
    [ classdata |-> r.classes, propdata |-> r.properties,
      sources |-> Sources(r.properties, porder),
      fields |-> fields, rel_fields |-> rel_fields ]

BuildFrom(S, r, T, corder, porder) ==
    IF r.err # NoErr THEN [S EXCEPT !.err = r.err]
    ELSE BuildRelClasses(BuildClasses(S, corder, T), porder, T)

BuildWith(S, r, fields, rel_fields, corder, porder) ==
    BuildFrom(S, r, Tables(r, porder, fields, rel_fields), corder, porder)

build_models(S, g, fields, rel_fields, corder, porder) ==
    BuildWith(S, import_schema(g), fields, rel_fields, corder, porder)

\* The registry a state S leaves behind.
Built(S) == registry = S.registry /\ heap = S.heap

Perms(X) ==
    { f \in [1..Cardinality(X) -> X] : \A i, j \in DOMAIN f : i # j => f[i] # f[j] }

----------
(* SpecImport: import_schema on every bounded graph.  The graph is drawn   *)
(* initially and the one action applies import_schema to it.               *)

NoCall == [op |-> "none"]

Pending == [err |-> "pending", classes |-> EmptyTable, properties |-> EmptyTable]

NoInput ==
    [g |-> BadSource, tables |-> Pending, corder |-> <<>>, porder |-> <<>>,
     fields |-> EmptyTable, rel_fields |-> EmptyTable]

\* The namespace of crm.models before any type is built; of the module's own
\* names only the root class is kept.
InitRegistry ==
    /\ registry = Put(EmptyTable, RootName, RootId)
    /\ heap = <<RootObject>>
    /\ ncalls = 0
    /\ last = NoCall

InitRest ==
    /\ InitRegistry
    /\ input = NoInput
    /\ nodes = <<>>
    /\ objs = <<>>
    /\ reloads = 0
    /\ ret = NoCall

NotImported == [called |-> FALSE, g |-> BadSource, r |-> Pending]

InitImport ==
    /\ \E g \in Schemas : imported = [called |-> FALSE, g |-> g, r |-> Pending]
    /\ InitRest

ImportSchema ==
    /\ ~imported.called
    /\ imported' = [imported EXCEPT !.called = TRUE, !.r = import_schema(imported.g)]
    /\ UNCHANGED <<registry, heap, input, ncalls, last, nodes, objs, reloads,
                   ret>>

NextImport == ImportSchema

SpecImport == InitImport /\ [][NextImport]_vars

----------------------------------------------------------------------------
(* Claims about import_schema (checked under SpecImport).                  *)

Returned == imported.called /\ imported.r.err = NoErr

\* The subjects import_schema builds an entry for: every class subject and
\* every property subject that is not an inverse.
Range(f) == {f[i] : i \in DOMAIN f}
ClassSubjects == Range(imported.g.classes)
RetainedSubjects == {p \in Range(imported.g.properties) : ~CodeEndsWithI(p)}

\* C2: in the returned tables every identifier of a class entry's subClassOf
\* list is a key of the class table, and every property entry's range is a
\* key of the class table.
C2_NoDanglingClassReference ==
    Returned =>
        /\ \A c \in DOMAIN imported.r.classes :
              "subClassOf" \in DOMAIN imported.r.classes[c] =>
                 \A i \in 1..Len(imported.r.classes[c].subClassOf) :
                    imported.r.classes[c].subClassOf[i] \in DOMAIN imported.r.classes
        /\ \A p \in DOMAIN imported.r.properties :
              imported.r.properties[p].range \in DOMAIN imported.r.classes

\* C2 witness: a returned class table with a resolved subclass edge and a
\* placeholder entry created for an undeclared range.
C2_Witness ==
    /\ Returned
    /\ \E c \in DOMAIN imported.r.classes :
          /\ "subClassOf" \in DOMAIN imported.r.classes[c]
          /\ imported.r.classes[c].subClassOf # <<>>
    /\ \E p \in DOMAIN imported.r.properties :
          imported.r.classes[imported.r.properties[p].range] =
             [identifier |-> imported.r.properties[p].range]

\* C3: a class or retained property without any label does not make the
\* import fail on the label, and its entry's label is its identifier.
C3_ZeroLabelsTolerated ==
    (/\ imported.called
     /\ imported.g.parses
     /\ \E s \in ClassSubjects \cup RetainedSubjects : imported.g.label[s] = <<>>)
    => /\ imported.r.err # "AttributeError"
       /\ imported.r.err = NoErr =>
             /\ \A s \in ClassSubjects :
                   imported.g.label[s] = <<>> =>
                      imported.r.classes[Identifier(s)[1]].label = Identifier(s)[1]
             /\ \A s \in RetainedSubjects :
                   imported.g.label[s] = <<>> =>
                      imported.r.properties[Identifier(s)[1]].label = Identifier(s)[1]

\* The identifier the second pass stores for a property when line 192 reads
\* predicate pred of the last class subject: the list is empty when there is
\* no such triple.
LastClassObject(pred) ==
    GetObject(imported.g, imported.g.classes[Len(imported.g.classes)], pred)

ParentFromLastClass(pred) ==
    \A p \in DOMAIN imported.r.properties :
        IF IsNone(LastClassObject(pred))
        THEN "subPropertyOf" \notin DOMAIN imported.r.properties[p]
        ELSE /\ "subPropertyOf" \in DOMAIN imported.r.properties[p]
             /\ imported.r.properties[p].subPropertyOf =
                   Identifier(LastClassObject(pred)[1])[1]

\* C9 as stated: every retained property's recorded parent is the one the
\* last class's subClassOf triple names.
C9_ParentFromLastClassSubClassOf ==
    (Returned /\ imported.r.properties # EmptyTable) =>
        ParentFromLastClass("subClassOf")

\* C9 amended: every retained property's recorded parent is the one the last
\* class's subPropertyOf triple names (none when it has no such triple),
\* whatever the property itself declares; one identifier is stored.
C9_ParentFromLastClassSubPropertyOf ==
    (Returned /\ imported.r.properties # EmptyTable) =>
        /\ imported.g.classes # <<>>
        /\ ParentFromLastClass("subPropertyOf")

\* C9 witness: a retained property whose stored parent differs from the one
\* it declares itself.
C9_Witness ==
    /\ Returned
    /\ \E s \in RetainedSubjects :
          /\ ~IsNone(GetObject(imported.g, s, "subPropertyOf"))
          /\ "subPropertyOf" \in DOMAIN imported.r.properties[Identifier(s)[1]]
          /\ imported.r.properties[Identifier(s)[1]].subPropertyOf #
                Identifier(GetObject(imported.g, s, "subPropertyOf")[1])[1]

----------------------------------------------------------------------------
(* SpecBuild: the registry under build_models, get_or_create_class and     *)
(* get_or_create_rel_class.  The schema, the iteration orders of the two   *)
(* dictionaries and the extension fields of build_models are drawn         *)
(* initially; the direct calls draw their own arguments.                   *)

\* The graphs built from: two class subjects (in one a second subject maps to
\* the identifier of the first and closes a subclass cycle), with single or
\* multiple inheritance, and one or two properties, one of them a subject
\* that is typed as a class too.
BuildSchemas ==
    { Graph(cs, ps, <<Lit("Entity b", "en")>>, <<Lit("est", "fr")>>, subE2,
            <<>>, domP1, <<U_Lit>>) :
        cs \in {<<U_E2, U_E1>>, <<U_E1, U_E2>>, <<U_E2, U_E1b>>},
        ps \in {<<U_P1>>, <<U_P1, U_E2>>},
        subE2 \in {<<>>, <<U_E1>>, <<U_E1, U_Lit>>, <<U_E1, U_E1>>},
        domP1 \in {<<U_E2>>} }
    \cup { Graph(<<U_E1>>, <<U_P1>>, <<>>, <<Lit("est", "fr")>>, <<>>, <<>>,
                 <<U_E2>>, <<U_X>>),
           BadSource }

NoFields == EmptyTable
SomeFields ==
    ( "note"  :> "not callable" @@
      "code"  :> "returns Property" @@
      "size"  :> "returns other" @@
      "value" :> "returns Property" )
FieldMaps == {NoFields, SomeFields}

InitBuild ==
    /\ InitRegistry
    /\ \E g \in BuildSchemas, f \in {SomeFields} :
          LET r == import_schema(g)
          IN  \E corder \in Perms(DOMAIN r.classes),
                 porder \in Perms(DOMAIN r.properties) :
                 input = [g |-> g, tables |-> r, corder |-> corder,
                          porder |-> porder, fields |-> f, rel_fields |-> f]
    /\ imported = NotImported
    /\ nodes = <<>>
    /\ objs = <<>>
    /\ reloads = 0
    /\ ret = NoCall

StateOf == [registry |-> registry, heap |-> heap, err |-> NoErr, replaced |-> {}]

UnchangedRest == UNCHANGED <<imported, input, nodes, objs, reloads, ret>>

\* What a call leaves behind; an exception leaves the bindings made before it.
Returns(op, identifier, fields, rel_fields, classdata, S, id) ==
    /\ registry' = S.registry
    /\ heap' = S.heap
    /\ ncalls' = ncalls + 1
    /\ last' = [ op |-> op, identifier |-> identifier, fields |-> fields,
                 rel_fields |-> rel_fields, classdata |-> classdata,
                 err |-> S.err, id |-> IF S.err = NoErr THEN id ELSE 0,
                 created |-> (Len(heap) + 1)..Len(S.heap),
                 replaced |-> S.replaced ]

ReturnsType(op, identifier, fields, rel_fields, classdata, r) ==
    Returns(op, identifier, fields, rel_fields, classdata, r.S, r.id)

BuildModels ==
    /\ ncalls < MaxCalls
    /\ Returns("build_models", None, input.fields, input.rel_fields,
               input.tables.classes,
               build_models(StateOf, input.g, input.fields, input.rel_fields,
                            input.corder, input.porder),
               0)
    /\ UnchangedRest

\* A direct call for a property identifier, with a caller-made entry.
GetOrCreateRelClass ==
    /\ ncalls < MaxCalls
    /\ \E identifier \in {"E2Act", "P9New"}, f \in FieldMaps :
          ReturnsType("get_or_create_rel_class", identifier, NoFields, f,
                      EmptyTable,
                      get_or_create_rel_class(
                         StateOf, identifier,
                         [identifier |-> identifier, safe_name |-> "p9_new"], f))
    /\ UnchangedRest

\* A direct call for a class of the imported tables.
GetOrCreateClass ==
    /\ ncalls < MaxCalls
    /\ input.tables.err = NoErr
    /\ \E identifier \in DOMAIN input.tables.classes, f \in FieldMaps :
          ReturnsType("get_or_create_class", identifier, f, NoFields,
                      input.tables.classes,
                      get_or_create_class(
                         StateOf, identifier, input.tables.classes[identifier],
                         Tables(input.tables, input.porder, f, NoFields), {}))
    /\ UnchangedRest

NextBuild == BuildModels \/ GetOrCreateRelClass \/ GetOrCreateClass

SpecBuild == InitBuild /\ [][NextBuild]_vars

----------------------------------------------------------------------------
(* Claims about the registry (checked under SpecBuild).                    *)

DirectCalls == {"get_or_create_class", "get_or_create_rel_class"}

\* C1: a binding of the registry is never removed or replaced, and a
\* construction request for a bound identifier returns the bound object.
C1_BindingsAreKept ==
    [][ /\ \A id \in DOMAIN registry :
             id \in DOMAIN registry' /\ registry'[id] = registry[id]
        /\ ncalls' = ncalls + 1 => last'.replaced = {}
        /\ (ncalls' = ncalls + 1 /\ last'.op \in DirectCalls
              /\ last'.identifier \in DOMAIN registry)
           => (last'.err = NoErr /\ last'.id = registry[last'.identifier]) ]_vars

\* The node types the identifiers of a subClassOf list are bound to, or the
\* root alone for an empty list.
ExpectedBases(entry) ==
    IF Get(entry, "subClassOf", <<>>) = <<>> THEN <<RootId>>
    ELSE [i \in 1..Len(entry.subClassOf) |-> registry[entry.subClassOf[i]]]

IsNodeType(id) == heap[id].kind \in {"node", "root"} /\ heap[id].family = "node"

\* C7: after build_models has completed, every class entry is bound to one
\* constructed node type whose direct supertypes are the node types of its
\* subClassOf list, or the root alone.
C7_EveryClassEntryIsANodeType ==
    (last.op = "build_models" /\ last.err = NoErr) =>
        \A c \in DOMAIN last.classdata :
            /\ c \in DOMAIN registry
            /\ heap[registry[c]].kind = "node"
            /\ heap[registry[c]].name = c
            /\ Cardinality({i \in DOMAIN heap :
                              heap[i].kind = "node" /\ heap[i].name = c}) = 1
            /\ heap[registry[c]].bases = ExpectedBases(last.classdata[c])
            /\ \A i \in DOMAIN heap[registry[c]].bases :
                  IsNodeType(heap[registry[c]].bases[i])

\* The extension fields a type was built with.
FieldsGiven(id) ==
    IF heap[id].kind = "rel" THEN last.rel_fields ELSE last.fields

GivenNonCallable ==
    /\ last.op \in DirectCalls
    /\ \/ \E k \in DOMAIN last.fields : last.fields[k] = "not callable"
       \/ \E k \in DOMAIN last.rel_fields : last.rel_fields[k] = "not callable"

\* C8 as stated: a call given a non-callable extension value ends in a
\* ConfigurationError.
C8_NonCallableIsRejected == GivenNonCallable => last.err = "ConfigurationError"

\* C8 amended: a non-callable extension value is passed over; the call raises
\* nothing for it and no type built by the call gets a Property under its key,
\* while a callable that returns a Property under a free key is added.
C8_NonCallableIsPassedOver ==
    (last.op \in DirectCalls \cup {"build_models"}) =>
        /\ last.err # "ConfigurationError"
        /\ last.op = "get_or_create_rel_class" => last.err = NoErr
        /\ \A id \in last.created :
              \A k \in DOMAIN FieldsGiven(id) :
                 /\ (FieldsGiven(id)[k] = "not callable" /\ k \in DOMAIN heap[id].attrs)
                       => heap[id].attrs[k].tag # "Property"
                 /\ (FieldsGiven(id)[k] = "returns Property"
                       /\ k \notin DOMAIN NodeParams(EmptyTable)
                       /\ k # "range")
                       => (k \in DOMAIN heap[id].attrs
                             /\ heap[id].attrs[k].tag \in {"Property", "RelationshipTo"})

\* C8 witness: a direct call, given a non-callable value, has built a type
\* and returned it.
C8_Witness ==
    /\ GivenNonCallable
    /\ last.err = NoErr
    /\ last.id \in last.created
    /\ "value" \in DOMAIN heap[last.id].attrs

----------------------------------------------------------------------------------------------------------------------------------------------
(* Spec: upcast and downcast of live instances.  The hierarchy is the one  *)
(* build_models leaves in the registry; the graph store holds the labels   *)
(* of each stored record.                                                  *)

SetOf(q) == {q[i] : i \in DOMAIN q}

\* Three classes: E2Act below E1Ent or beside it, E3Obj below either or both.
HierarchyOf(g, subE3) ==
    [g EXCEPT !.label = [@ EXCEPT ![U_E3] = <<Lit("Object", "en")>>],
              !.subClassOf = [@ EXCEPT ![U_E3] = subE3]]

CastSchemas ==
    { HierarchyOf(Graph(<<U_E1, U_E2, U_E3>>, <<U_P1>>, <<>>, <<Lit("est", "fr")>>,
                        subE2, <<>>, <<U_E2>>, <<U_Lit>>), subE3) :
        subE2 \in {<<>>, <<U_E1>>},
        subE3 \in {<<U_E1>>, <<U_E2>>, <<U_E2, U_E1>>} }

\* cls.inherited_labels(): the names of the classes of cls.mro() that carry a
\* label, which the abstract root does not.
inherited_labels(cls) ==
    {heap[c].name : c \in {c \in SetOf(heap[cls].mro) : heap[c].kind # "root"}}

\* len(cls.mro()), up to the library classes every node type ends in.
MroLen(cls) == Len(heap[cls].mro)

\* The classes a record can be saved as.
NodeClasses == {c \in DOMAIN heap : heap[c].kind = "node"}

\* The iteration orders of the class table taken up: those that begin with
\* the entry put in first.
CastOrders(classes) == {p \in Perms(DOMAIN classes) : p[1] = "Literal"}

InitCast ==
    /\ \E g \in CastSchemas :
          LET r == import_schema(g)
          IN  \E corder \in CastOrders(r.classes),
                 porder \in Perms(DOMAIN r.properties) :
                 Built(build_models(
                          [registry |-> Put(EmptyTable, RootName, RootId),
                           heap |-> <<RootObject>>, err |-> NoErr, replaced |-> {}],
                          g, NoFields, NoFields, corder, porder))
    /\ ncalls = 1
    /\ last = NoCall
    /\ input = NoInput
    /\ imported = NotImported
    /\ nodes = <<>>
    /\ objs = <<>>
    /\ reloads = 0
    /\ ret = NoCall

UnchangedRegistry == UNCHANGED <<imported, registry, heap, input, ncalls, last>>

\* An instance: its class, the record it wraps, and the call that made it.
Instance(cls, node, by, from) == [cls |-> cls, node |-> node, by |-> by, from |-> from]

\* cls(...).save(): a new record with the labels of cls, and an instance of it.
Create ==
    /\ Len(nodes) < MaxNodes
    /\ Len(objs) < MaxObjs
    /\ \E cls \in NodeClasses :
          /\ nodes' = Append(nodes, inherited_labels(cls))
          /\ objs' = Append(objs, Instance(cls, Len(nodes) + 1, "create", 0))
    /\ UNCHANGED <<reloads, ret>>
    /\ UnchangedRegistry

\* Another client of the store saves the record as a further class: the
\* labels of that class are attached to it.
StoreAttachesLabels ==
    /\ \E n \in DOMAIN nodes, cls \in NodeClasses :
          /\ ~(inherited_labels(cls) \subseteq nodes[n])
          /\ nodes' = [nodes EXCEPT ![n] = @ \cup inherited_labels(cls)]
    /\ UNCHANGED <<objs, reloads, ret>>
    /\ UnchangedRegistry

\* return self
ReturnsSelf(op, self, target) ==
    /\ ret' = [op |-> op, self |-> self, target |-> target, outcome |-> NoErr,
               result |-> self]
    /\ UNCHANGED <<nodes, objs, reloads>>
    /\ UnchangedRegistry

\* raise
Raises(op, self, target, error) ==
    /\ ret' = [op |-> op, self |-> self, target |-> target, outcome |-> error,
               result |-> 0]
    /\ UNCHANGED <<nodes, objs, reloads>>
    /\ UnchangedRegistry

\* instance = cls.inflate(self.id); instance.refresh(); return instance
Inflates(op, self, target, cls) ==
    /\ ret' = [op |-> op, self |-> self, target |-> target, outcome |-> NoErr,
               result |-> Len(objs) + 1]
    /\ objs' = Append(objs, Instance(cls, objs[self].node, op, self))
    /\ reloads' = reloads + 1
    /\ UNCHANGED nodes
    /\ UnchangedRegistry

\* A target is a class name or a class object, which stands for its name
\* (lines 69-72 and 112-115).
TargetNames == (DOMAIN registry \ {RootName}) \cup {"Unknown"}
Targets == [name : TargetNames] \cup [type : NodeClasses]
NameOf(target) ==
    IF "type" \in DOMAIN target THEN heap[target.type].name ELSE target.name

\* getattr(sys.modules[__name__], cname)
HasAttr(cname) == cname \in DOMAIN registry
GetAttr(cname) == registry[cname]

\* upcast(self, target_class) without the test of lines 74-76.
UpcastToAnyClass(self, target) ==
    IF ~HasAttr(NameOf(target))
    THEN Raises("upcast", self, target, "AttributeError")
    ELSE Inflates("upcast", self, target, GetAttr(NameOf(target)))

\* upcast(self, target_class) (lines 64-83)
UpcastTo(self, target) ==
    IF NameOf(target) \notin inherited_labels(objs[self].cls)
    THEN Raises("upcast", self, target, "ValueError")
    ELSE IF ~HasAttr(NameOf(target))
    THEN Raises("upcast", self, target, "AttributeError")
    ELSE Inflates("upcast", self, target, GetAttr(NameOf(target)))

Upcast ==
    /\ Len(objs) < MaxObjs
    /\ \E self \in DOMAIN objs, target \in Targets : UpcastTo(self, target)

\* set(self.labels()) with nothing taken away.
AllLabels(self) == nodes[objs[self].node]

\* classes = list(set(self.labels()) - set(self.inherited_labels()))
ExtraLabels(self) == nodes[objs[self].node] \ inherited_labels(objs[self].cls)

\* The classes in the order of the list, unsorted: any may come last.
AnyOf(classes) == classes

\* The sort of lines 106-110 turned round.
Shallowest(classes) ==
    {c \in classes : \A d \in classes : MroLen(GetAttr(c)) <= MroLen(GetAttr(d))}

\* Lines 106-110: of the classes sorted by len(mro()), the last.  The order
\* of the set's list decides between classes of equal length.
Deepest(classes) ==
    {c \in classes : \A d \in classes : MroLen(GetAttr(d)) <= MroLen(GetAttr(c))}

\* downcast(self, target_class=None) (lines 85-126); target is <<>> for None.
DowncastTo(self, target) ==
    IF ExtraLabels(self) = {}
    THEN ReturnsSelf("downcast", self, target)
    ELSE IF target = <<>>
    THEN IF Cardinality(ExtraLabels(self)) = 1
         THEN \E c \in ExtraLabels(self) :
                 IF HasAttr(c)
                 THEN Inflates("downcast", self, target, GetAttr(c))
                 ELSE Raises("downcast", self, target, "AttributeError")
         ELSE IF \E c \in ExtraLabels(self) : ~HasAttr(c)
              THEN Raises("downcast", self, target, "AttributeError")
              ELSE \E c \in Deepest(ExtraLabels(self)) :
                      Inflates("downcast", self, target, GetAttr(c))
    ELSE IF NameOf(target[1]) \notin ExtraLabels(self)
    THEN Raises("downcast", self, target, "ValueError")
    ELSE IF ~HasAttr(NameOf(target[1]))
    THEN Raises("downcast", self, target, "AttributeError")
    ELSE Inflates("downcast", self, target, GetAttr(NameOf(target[1])))

Downcast ==
    /\ Len(objs) < MaxObjs
    /\ \E self \in DOMAIN objs, target \in {<<>>} \cup {<<t>> : t \in Targets} :
          DowncastTo(self, target)

Next == Create \/ StoreAttachesLabels \/ Upcast \/ Downcast

Spec == InitCast /\ [][Next]_vars

----------------------------------------------------------------------------
(* Claims about upcast and downcast.  A step that leaves the store's       *)
(* records alone and changes the state is one call, which ret' describes.  *)

\* The labels of the record behind an instance, and those beyond the chain
\* of the instance's class.
LabelsOf(self) == nodes[objs[self].node]
BeyondChain(self) == LabelsOf(self) \ inherited_labels(objs[self].cls)

\* The call reloaded the record of self as the class bound to name.
ReloadedAs(self, name) ==
    /\ ret'.outcome = NoErr
    /\ ret'.result = Len(objs) + 1
    /\ objs' = Append(objs, objs'[ret'.result])
    /\ objs'[ret'.result].node = objs[self].node
    /\ objs'[ret'.result].cls = registry[name]
    /\ heap[registry[name]].name = name
    /\ reloads' = reloads + 1

\* C4: upcast with a target outside the instance's inherited labels raises
\* the ValueError and reloads nothing, the instances and the records staying
\* as they were; with a target among them it returns the record reloaded as
\* the target class.
C4_UpcastChecksAncestry ==
    [][ (nodes' = nodes /\ ret'.op = "upcast") =>
          IF NameOf(ret'.target) \notin inherited_labels(objs[ret'.self].cls)
          THEN /\ ret'.outcome = "ValueError"
               /\ UNCHANGED <<objs, nodes, reloads, registry, heap>>
          ELSE ReloadedAs(ret'.self, NameOf(ret'.target)) ]_vars

\* An upcast has been refused for a class that exists, after another went
\* through.
C4_Witness ==
    /\ ret.op = "upcast"
    /\ ret.outcome = "ValueError"
    /\ NameOf(ret.target) \in DOMAIN registry
    /\ \E i \in DOMAIN objs : objs[i].by = "upcast" /\ objs[i].cls # objs[objs[i].from].cls

\* C5: downcast of an instance whose record has no label beyond the chain of
\* its class returns that very instance and reloads nothing.
C5_DowncastOfMostDerivedIsIdentity ==
    [][ (nodes' = nodes /\ ret'.op = "downcast" /\ BeyondChain(ret'.self) = {}) =>
          /\ ret'.outcome = NoErr
          /\ ret'.result = ret'.self
          /\ UNCHANGED <<objs, nodes, reloads>> ]_vars

\* A downcast, with and without a target, has returned its own instance.
C5_Witness ==
    /\ ret.op = "downcast"
    /\ ret.outcome = NoErr
    /\ ret.result = ret.self
    /\ ret.target # <<>>
    /\ BeyondChain(ret.self) = {}
    /\ reloads = 0

\* C6: downcast without a target, on an instance whose record has labels
\* beyond the chain of its class, reloads the record as the class of one of
\* those labels, and none of them names a class with a longer mro.
C6_UntargetedDowncastPicksDeepest ==
    [][ (nodes' = nodes /\ ret'.op = "downcast" /\ ret'.target = <<>>
            /\ BeyondChain(ret'.self) # {}) =>
          \E c \in BeyondChain(ret'.self) :
             /\ ReloadedAs(ret'.self, c)
             /\ \A d \in BeyondChain(ret'.self) :
                   MroLen(registry[d]) <= MroLen(registry[c]) ]_vars

\* An untargeted downcast had two labels of different depth to choose from:
\* the record carries exactly the chain of the class it was reloaded as.
C6_Witness ==
    /\ ret.op = "downcast"
    /\ ret.target = <<>>
    /\ ret.outcome = NoErr
    /\ ret.result # ret.self
    /\ LabelsOf(ret.self) = inherited_labels(objs[ret.result].cls)
    /\ \E c, d \in BeyondChain(ret.self) : MroLen(registry[c]) < MroLen(registry[d])

\* C10: for an instance x of class X whose record carries exactly the labels
\* of X's chain, an untargeted downcast of x.upcast(A) yields an instance of X.
C10_UpcastThenDowncastRoundTrips ==
    [][ (nodes' = nodes /\ ret'.op = "downcast" /\ ret'.target = <<>>
            /\ objs[ret'.self].by = "upcast"
            /\ LabelsOf(ret'.self) =
                  inherited_labels(objs[objs[ret'.self].from].cls)) =>
          /\ ret'.outcome = NoErr
          /\ objs'[ret'.result].cls = objs[objs[ret'.self].from].cls
          /\ objs'[ret'.result].node = objs[ret'.self].node ]_vars

\* An instance of a class with two parents was upcast to one of them, and
\* the untargeted downcast of the result had two labels to choose from.
C10_Witness ==
    /\ ret.op = "downcast"
    /\ ret.target = <<>>
    /\ ret.outcome = NoErr
    /\ objs[ret.self].by = "upcast"
    /\ objs[ret.result].by = "downcast"
    /\ objs[ret.result].cls = objs[objs[ret.self].from].cls
    /\ Len(heap[objs[ret.result].cls].bases) = 2
    /\ LabelsOf(ret.self) = inherited_labels(objs[ret.result].cls)
    /\ Cardinality(BeyondChain(ret.self)) = 2

====
